---- MODULE Spec2Model ----
(***************************************************************************)
(* A model of rs-blockchain: the block store with its tip pointer, the     *)
(* transaction model (ids, signing, verification), the UTXO index          *)
(* (reindex / update / find_spendable_outputs), the command line           *)
(* operations, and the peer-to-peer node with its message handlers.        *)
(*                                                                         *)
(* Byte strings are modelled as tagged tuples:  <<>> is the empty vector,  *)
(* <<"pub", a>> the public key of wallet a, <<"pkh", a>> its public key    *)
(* hash, <<"data", d>> the data string of a coinbase, <<"sig", a, m>> the  *)
(* 64 byte signature of message m under the private key of wallet a.       *)
(* SHA-256 is modelled as a collision free function: the hash of a value   *)
(* is a tagged tuple of exactly the fields that are serialized.            *)
(***************************************************************************)
EXTENDS Integers, Sequences, FiniteSets, Bags, TLC

VARIABLES
    bc,         \* the block store: [db: hash -> block, l: the "l" key, tip: in-memory tip]
    utxo,       \* the UTXO index: tx_id -> sequence of outputs
    indexed,    \* the tip the UTXO index was last brought up to date with
    pool,       \* the transactions built by new_utxo so far
    world,      \* every block that exists somewhere (a peer may send it)
    clock,      \* the wall clock used for block timestamps
    result,     \* outcome of the last operation
    nodes,      \* the running servers: node_address -> ServerInner and configuration
    msgs,       \* the messages written to a connection and not yet handled (a bag)
    threads,    \* the handler threads that are between two lock sections (a bag)
    started     \* the servers whose start-up thread has run

netvars == <<nodes, msgs, threads, started>>

vars == <<bc, utxo, indexed, pool, world, clock, result, nodes, msgs, threads, started>>

----------------------------------------------------------------------------
(* Bounds of the model *)

\* number of blocks that are mined (calls of Block::new) in one behaviour
MaxBlocks == 3
\* number of distinct transactions that are built by new_utxo in one behaviour
MaxPool == 2
\* number of handler threads of one node that are between two lock sections
MaxThreads == 2

(* Program constants *)
SUBSIDY == 10

Addresses == {"A1", "A2"}
Amounts == {4, 10}

EmptyBytes == <<>>
ZeroHash == <<>>
NoTip == <<"none">>
GENESIS_COINBASE_DATA == "genesis"

----------------------------------------------------------------------------
(* evaluation helper *)

\* F applied to the value of v, v being evaluated exactly once
Once(v, F(_)) == CHOOSE r \in {F(x) : x \in {v}} : TRUE

----------------------------------------------------------------------------
(* utils.rs, wallet.rs *)

\* the key pair stored for an address
WalletPublicKey(a) == <<"pub", a>>

\* RIPEMD160(SHA256(pub_key))
hash_pub_key(k) ==
    IF k # EmptyBytes /\ k[1] = "pub" THEN <<"pkh", k[2]>> ELSE <<"h160", k>>

\* base58 decode of an address, version byte and checksum stripped
get_pub_key_hash(a) == <<"pkh", a>>

\* VerifyingKey::from_sec1_bytes succeeds
IsSec1Key(k) == k # EmptyBytes /\ k[1] = "pub"

\* ECDSA: the signature of message m under the private key of wallet a
EcdsaSign(a, m) == <<"sig", a, m>>

\* ECDSA verification of sig over m with the public key k
EcdsaVerify(k, m, sig) == sig = <<"sig", k[2], m>>

----------------------------------------------------------------------------
(* transaction.rs *)

TXOutputNew(value, address) ==
    [value |-> value, pub_key_hash |-> get_pub_key_hash(address)]

is_locked_with_key(out, pkh) == out.pub_key_hash = pkh

uses_key(in, pkh) == hash_pub_key(in.pub_key) = pkh

\* Transaction::hash: SHA256 of the transaction serialized with its id cleared
TxHash(tx) == <<"txid", tx.v_in, tx.v_out>>

\* Transaction::set_id
set_id(tx) == [tx EXCEPT !.id = TxHash(tx)]

is_coinbase(tx) ==
    /\ Len(tx.v_in) = 1
    /\ tx.v_in[1].tx_id = EmptyBytes
    /\ tx.v_in[1].v_out = -1

new_coinbase(to, data) ==
    LET d == IF data = "" THEN to ELSE data
        tx_in == [tx_id |-> EmptyBytes, v_out |-> -1,
                  signature |-> EmptyBytes, pub_key |-> <<"data", d>>]
    IN  set_id([id |-> EmptyBytes, v_in |-> <<tx_in>>,
                v_out |-> <<TXOutputNew(SUBSIDY, to)>>])

trimmed_copy(tx) ==
    [id   |-> tx.id,
     v_in |-> [i \in 1..Len(tx.v_in) |->
                 [tx_id |-> tx.v_in[i].tx_id, v_out |-> tx.v_in[i].v_out,
                  signature |-> EmptyBytes, pub_key |-> EmptyBytes]],
     v_out |-> [i \in 1..Len(tx.v_out) |->
                 [value |-> tx.v_out[i].value,
                  pub_key_hash |-> tx.v_out[i].pub_key_hash]]]

\* prev_txs is a function tx_id -> transaction.  The index of an output is
\* 0-based in the program and 1-based in a sequence.
PrevOutOk(tx, i, prev_txs) ==
    /\ tx.v_in[i].tx_id \in DOMAIN prev_txs
    /\ tx.v_in[i].v_out >= 0
    /\ tx.v_in[i].v_out + 1 <= Len(prev_txs[tx.v_in[i].tx_id].v_out)

\* the id of the trimmed copy in which input i carries the pub_key_hash of
\* the output it references: the message that is signed and verified
TrimmedId(tx, i, prev_txs) ==
    LET cp  == trimmed_copy(tx)
        pkh == prev_txs[tx.v_in[i].tx_id].v_out[tx.v_in[i].v_out + 1].pub_key_hash
    IN  TxHash([cp EXCEPT !.v_in[i].pub_key = pkh])

\* sign as it would be without the reset of pub_key after each input
\* (transaction.rs:126): the message of input i still carries the
\* pub_key_hash set for the inputs before it
sign_PubKeyNotReset(tx, a, prev_txs) ==
    IF is_coinbase(tx) THEN [status |-> "ok", tx |-> tx]
    ELSE IF \E i \in 1..Len(tx.v_in) : ~PrevOutOk(tx, i, prev_txs)
         THEN [status |-> "panic", tx |-> tx]
    ELSE LET cp == trimmed_copy(tx)
             pkh(j) == prev_txs[tx.v_in[j].tx_id].v_out[tx.v_in[j].v_out + 1].pub_key_hash
             msg(i) == TxHash([cp EXCEPT !.v_in =
                          [j \in 1..Len(cp.v_in) |->
                              IF j <= i THEN [cp.v_in[j] EXCEPT !.pub_key = pkh(j)]
                              ELSE cp.v_in[j]]])
         IN  [status |-> "ok",
              tx |-> [tx EXCEPT !.v_in = [i \in 1..Len(tx.v_in) |->
                        [tx.v_in[i] EXCEPT !.signature = EcdsaSign(a, msg(i))]]]]

\* Transaction::sign: [status, tx]
sign(tx, a, prev_txs) ==
    IF is_coinbase(tx) THEN [status |-> "ok", tx |-> tx]
    ELSE IF \E i \in 1..Len(tx.v_in) : ~PrevOutOk(tx, i, prev_txs)
         THEN [status |-> "panic", tx |-> tx]
    ELSE [status |-> "ok",
          tx |-> [tx EXCEPT !.v_in = [i \in 1..Len(tx.v_in) |->
                    [tx.v_in[i] EXCEPT
                       !.signature = EcdsaSign(a, TrimmedId(tx, i, prev_txs))]]]]

\* the outcome of the loop body of Transaction::verify for input i
VerifyInput(tx, i, prev_txs) ==
    IF ~PrevOutOk(tx, i, prev_txs) THEN "panic"
    ELSE IF tx.v_in[i].signature = EmptyBytes THEN "false"
    ELSE IF ~IsSec1Key(tx.v_in[i].pub_key) THEN "err"
    ELSE IF ~EcdsaVerify(tx.v_in[i].pub_key, TrimmedId(tx, i, prev_txs),
                         tx.v_in[i].signature) THEN "false"
    ELSE "true"

\* Transaction::verify: "true", "false", "err" or "panic"; the first input
\* that does not verify decides
verify(tx, prev_txs) ==
    LET bad == {i \in 1..Len(tx.v_in) : VerifyInput(tx, i, prev_txs) # "true"}
    IN  IF bad = {} THEN "true"
        ELSE VerifyInput(tx, CHOOSE i \in bad : \A j \in bad : i <= j, prev_txs)

----------------------------------------------------------------------------
(* block.rs *)

\* double SHA-256 of (prev_block_hash, transactions, timestamp, TARGET_BITS, nonce).
\* The clock gives every mined block its own timestamp, so the timestamp and
\* the ids of the transactions tell the hashed contents of two blocks apart.
BlockHash(prev, txs, ts) == <<"bh", ts, [i \in 1..Len(txs) |-> txs[i].id]>>

\* Block::new: run the proof of work and store the hash
BlockNew(txs, prev, height, ts) ==
    [timestamp |-> ts, transactions |-> txs, prev_block_hash |-> prev,
     hash |-> BlockHash(prev, txs, ts), height |-> height]

new_genesis_block(cbtx, ts) == BlockNew(<<cbtx>>, ZeroHash, 0, ts)

\* Block::validate: the hash recomputed from the contents is the stored hash
\* (run_proof_of_work stores only a hash that meets the target)
validate(block) ==
    block.hash = BlockHash(block.prev_block_hash, block.transactions, block.timestamp)

----------------------------------------------------------------------------
(* blockchain.rs *)

\* the height a block records (Block.height)
HeightOf(db, h) == IF h \in DOMAIN db THEN db[h].height ELSE -1

\* create as it would be without remove_dir_all: the genesis block is
\* written into the store that is already there
create_KeepsStore(addr, ts) ==
    LET cbtx    == new_coinbase(addr, GENESIS_COINBASE_DATA)
        genesis == new_genesis_block(cbtx, ts)
    IN  [db |-> (genesis.hash :> genesis) @@ bc.db, l |-> genesis.hash, tip |-> genesis.hash]

\* Blockchain::create: wipe the store, write the genesis block and "l"
create(addr, ts) ==
    LET cbtx    == new_coinbase(addr, GENESIS_COINBASE_DATA)
        genesis == new_genesis_block(cbtx, ts)
    IN  [db |-> (genesis.hash :> genesis), l |-> genesis.hash, tip |-> genesis.hash]

\* Blockchain::add_block: store the block under its hash, write "l", set tip
add_block(b, block) ==
    [db  |-> (block.hash :> block) @@ b.db,
     l   |-> block.hash,
     tip |-> block.hash]

\* BlockchainIterator::next, applied until the current hash is not stored
RECURSIVE IterFrom(_, _, _)
IterFrom(db, h, fuel) ==
    IF h \notin DOMAIN db \/ fuel = 0 THEN <<>>
    ELSE <<db[h]>> \o IterFrom(db, db[h].prev_block_hash, fuel - 1)

\* Blockchain::iter: the blocks from the in-memory tip backwards
iter(b) == IterFrom(b.db, b.tip, Cardinality(DOMAIN b.db))

RECURSIVE ConcatTxs(_, _)
ConcatTxs(blocks, k) ==
    IF k > Len(blocks) THEN <<>>
    ELSE blocks[k].transactions \o ConcatTxs(blocks, k + 1)

\* the transactions in the order find_transaction visits them
ChainTxs(b) == ConcatTxs(iter(b), 1)

\* Blockchain::find_transaction returns Some
HasTransaction(b, id) == \E k \in 1..Len(ChainTxs(b)) : ChainTxs(b)[k].id = id

\* Blockchain::find_transaction: the first match from the tip
find_transaction(b, id) ==
    Once(ChainTxs(b),
         LAMBDA txs : txs[CHOOSE i \in 1..Len(txs) :
                             txs[i].id = id /\ \A j \in 1..(i - 1) : txs[j].id # id])

InputIds(tx) == {tx.v_in[i].tx_id : i \in 1..Len(tx.v_in)}

\* the prev_txs map built by sign_transaction and verify_transaction
PrevTxs(b, tx) == [id \in InputIds(tx) |-> find_transaction(b, id)]

\* find_transaction(..).unwrap() panics for some input
MissingPrevTx(b, tx) == \E id \in InputIds(tx) : ~HasTransaction(b, id)

\* Blockchain::sign_transaction: [status, tx]
sign_transaction(b, tx, a) ==
    IF MissingPrevTx(b, tx) THEN [status |-> "panic", tx |-> tx]
    ELSE Once(PrevTxs(b, tx), LAMBDA prev_txs : sign(tx, a, prev_txs))

\* Blockchain::verify_transaction: "true", "false", "err" or "panic"
verify_transaction(b, tx) ==
    IF MissingPrevTx(b, tx) THEN "panic"
    ELSE Once(PrevTxs(b, tx), LAMBDA prev_txs : verify(tx, prev_txs))

\* the outcome of the verification loop of mine_block: the first transaction
\* that does not verify decides
VerifyAll(b, txs) ==
    LET bad == {i \in 1..Len(txs) : verify_transaction(b, txs[i]) # "true"}
    IN  IF bad = {} THEN "ok"
        ELSE LET r == verify_transaction(b, txs[CHOOSE i \in bad : \A j \in bad : i <= j])
             IN  IF r = "panic" THEN "panic" ELSE "err"

\* Blockchain::mine_block: [status, bc, block]
mine_block(b, txs, ts) ==
    LET v == VerifyAll(b, txs)
        new_block == BlockNew(txs, b.l, HeightOf(b.db, b.l) + 1, ts)
    IN  IF v # "ok" THEN [status |-> v, bc |-> b, block |-> new_block]
        ELSE IF b.l = NoTip THEN [status |-> "panic", bc |-> b, block |-> new_block]
        ELSE [status |-> "ok", bc |-> add_block(b, new_block), block |-> new_block]

\* Blockchain::find_unspend_transactions, the loop over the transactions from
\* the tip to genesis: the transaction is pushed once for every output locked
\* with the key that spend_txos does not hold; then its inputs that use the key
\* are entered in spend_txos
RECURSIVE ScanUnspend(_, _, _, _, _)
ScanUnspend(txs, k, pkh, spend_txos, unspend_txs) ==
    IF k > Len(txs) THEN unspend_txs
    ELSE LET tx     == txs[k]
             pushes == SelectSeq([i \in 1..Len(tx.v_out) |-> i],
                                 LAMBDA i : /\ <<tx.id, i - 1>> \notin spend_txos
                                            /\ is_locked_with_key(tx.v_out[i], pkh))
             spent2 == IF is_coinbase(tx) THEN spend_txos
                       ELSE spend_txos \cup
                            {<<tx.v_in[i].tx_id, tx.v_in[i].v_out>> :
                               i \in {j \in 1..Len(tx.v_in) : uses_key(tx.v_in[j], pkh)}}
         IN  Once(<<spent2, unspend_txs \o [j \in 1..Len(pushes) |-> tx]>>,
                  LAMBDA p : ScanUnspend(txs, k + 1, pkh, p[1], p[2]))

find_unspend_transactions(b, pkh) ==
    Once(ChainTxs(b), LAMBDA txs : ScanUnspend(txs, 1, pkh, {}, <<>>))

\* Blockchain::find_utxo(pkh): every output locked with the key of every
\* transaction find_unspend_transactions returns
find_utxo(b, pkh) ==
    Once(find_unspend_transactions(b, pkh),
         LAMBDA unspend : ConcatTxs([k \in 1..Len(unspend) |->
                                      [transactions |->
                                         SelectSeq(unspend[k].v_out,
                                                   LAMBDA out : is_locked_with_key(out, pkh))]],
                                    1))

----------------------------------------------------------------------------
(* utxoset.rs *)

\* the orders in which the keys of a map may be iterated
Orders(S) ==
    {f \in [1..Cardinality(S) -> S] : \A i, j \in 1..Cardinality(S) : f[i] = f[j] => i = j}

RemoveKey(f, k) == [x \in DOMAIN f \ {k} |-> f[x]]

Insert(f, k, v) == (k :> v) @@ f

\* the whole-chain scan behind reindex: from tip to genesis, an output is
\* unspent when no input seen so far references it; one record per tx_id
RECURSIVE ScanTxs(_, _, _, _)
ScanTxs(txs, k, spent, recs) ==
    IF k > Len(txs) THEN recs
    ELSE LET tx     == txs[k]
             free   == SelectSeq([i \in 1..Len(tx.v_out) |-> i],
                                 LAMBDA i : <<tx.id, i - 1>> \notin spent)
             outs   == [j \in 1..Len(free) |-> tx.v_out[free[j]]]
             old    == IF tx.id \in DOMAIN recs THEN recs[tx.id] ELSE <<>>
             recs2  == IF Len(free) = 0 THEN recs ELSE Insert(recs, tx.id, old \o outs)
             spent2 == IF is_coinbase(tx) THEN spent
                       ELSE spent \cup {<<tx.v_in[i].tx_id, tx.v_in[i].v_out>> :
                                           i \in 1..Len(tx.v_in)}
         IN  Once(<<spent2, recs2>>, LAMBDA p : ScanTxs(txs, k + 1, p[1], p[2]))

\* Blockchain::find_utxo(): tx_id -> unspent outputs
find_utxo_all(b) == Once(ChainTxs(b), LAMBDA txs : ScanTxs(txs, 1, {}, <<>>))

\* UTXOSet::reindex: drop the index and write the records of the scan
reindex(b) == find_utxo_all(b)

\* the outputs of the index in iteration order: <<tx_id, out_idx, out>>
RECURSIVE Entries(_, _, _)
Entries(u, order, k) ==
    IF k > Len(order) THEN <<>>
    ELSE [i \in 1..Len(u[order[k]]) |-> <<order[k], i - 1, u[order[k]][i]>>]
         \o Entries(u, order, k + 1)

RECURSIVE SpendScan(_, _, _, _, _, _)
SpendScan(list, k, pkh, amount, acc, found) ==
    IF k > Len(list) THEN [acc |-> acc, outs |-> found]
    ELSE LET e      == list[k]
             take   == is_locked_with_key(e[3], pkh) /\ acc < amount
             acc2   == IF take THEN acc + e[3].value ELSE acc
             found2 == IF take THEN Append(found, <<e[1], e[2]>>) ELSE found
         IN  Once(<<acc2, found2>>,
                  LAMBDA p : IF p[1] >= amount THEN [acc |-> p[1], outs |-> p[2]]
                             ELSE SpendScan(list, k + 1, pkh, amount, p[1], p[2]))

\* UTXOSet::find_spendable_outputs with the records iterated in `order`:
\* [acc, outs], outs the <<tx_id, out_idx>> pairs in the order they were pushed
find_spendable_outputs(u, order, pkh, amount) ==
    Once(Entries(u, order, 1), LAMBDA list : SpendScan(list, 1, pkh, amount, 0, <<>>))

\* UTXOSet::find_utxo: the outputs of the index locked with pkh
RECURSIVE SumLocked(_, _, _)
SumLocked(list, k, pkh) ==
    IF k > Len(list) THEN 0
    ELSE (IF is_locked_with_key(list[k][3], pkh) THEN list[k][3].value ELSE 0)
         + SumLocked(list, k + 1, pkh)

\* main.rs GetBalance: the sum of find_utxo(pkh)
Balance(u, a) ==
    Once(Entries(u, CHOOSE o \in Orders(DOMAIN u) : TRUE, 1),
         LAMBDA list : SumLocked(list, 1, get_pub_key_hash(a)))

\* the record without the output at position v_out
DropAt(outs, v_out) ==
    SelectSeq([i \in 1..Len(outs) |-> <<i - 1, outs[i]>>],
              LAMBDA e : e[1] # v_out)

\* UTXOSet::update, the loop over the inputs of one transaction: [status, u]
RECURSIVE UpdateInputs(_, _, _)
UpdateInputs(u, v_in, k) ==
    IF k > Len(v_in) THEN [status |-> "ok", u |-> u]
    ELSE IF v_in[k].tx_id \notin DOMAIN u THEN [status |-> "panic", u |-> u]
    ELSE LET kept    == DropAt(u[v_in[k].tx_id], v_in[k].v_out)
             updated == [i \in 1..Len(kept) |-> kept[i][2]]
         IN  Once(IF Len(updated) = 0 THEN RemoveKey(u, v_in[k].tx_id)
                  ELSE Insert(u, v_in[k].tx_id, updated),
                  LAMBDA u2 : UpdateInputs(u2, v_in, k + 1))

\* UTXOSet::update, the loop over the transactions of the block: [status, u]
RECURSIVE UpdateTxs(_, _, _)
UpdateTxs(u, txs, k) ==
    IF k > Len(txs) THEN [status |-> "ok", u |-> u]
    ELSE Once(IF is_coinbase(txs[k]) THEN [status |-> "ok", u |-> u]
              ELSE UpdateInputs(u, txs[k].v_in, 1),
              LAMBDA r : IF r.status # "ok" THEN r
                         ELSE Once(Insert(r.u, txs[k].id, txs[k].v_out),
                                   LAMBDA u2 : UpdateTxs(u2, txs, k + 1)))

update(u, block) == UpdateTxs(u, block.transactions, 1)

----------------------------------------------------------------------------
(* transaction.rs: new_utxo *)

\* the inputs new_utxo builds from valid_outputs, the tx_ids taken in `ids`
RECURSIVE BuildInputs(_, _, _, _)
BuildInputs(found, ids, k, pub) ==
    IF k > Len(ids) THEN <<>>
    ELSE LET mine == SelectSeq(found, LAMBDA e : e[1] = ids[k])
         IN  [i \in 1..Len(mine) |->
                 [tx_id |-> mine[i][1], v_out |-> mine[i][2],
                  signature |-> EmptyBytes, pub_key |-> pub]]
             \o BuildInputs(found, ids, k + 1, pub)

FoundIds(found) == {found[i][1] : i \in 1..Len(found)}

\* Transaction::new_utxo: [status, tx]; `order` is the iteration order of the
\* index, `ids` the iteration order of the valid_outputs map
NewUtxoTx(from, to, amount, sp, ids) ==
    set_id([id    |-> EmptyBytes,
            v_in  |-> BuildInputs(sp.outs, ids, 1, WalletPublicKey(from)),
            v_out |-> <<TXOutputNew(amount, to)>>
                      \o (IF sp.acc > amount THEN <<TXOutputNew(sp.acc - amount, from)>>
                          ELSE <<>>)])

\* new_utxo as it would be without the check of acc against amount
new_utxo_NoFundsCheck(from, to, amount, b, u, order, ids) ==
    Once(find_spendable_outputs(u, order, hash_pub_key(WalletPublicKey(from)), amount),
         LAMBDA sp :
           Once(NewUtxoTx(from, to, amount, sp, ids),
                LAMBDA tx :
                  Once(sign_transaction(b, tx, from),
                       LAMBDA s : [status |-> s.status, tx |-> s.tx, acc |-> sp.acc])))

new_utxo(from, to, amount, b, u, order, ids) ==
    Once(find_spendable_outputs(u, order, hash_pub_key(WalletPublicKey(from)), amount),
         LAMBDA sp :
           Once(NewUtxoTx(from, to, amount, sp, ids),
                LAMBDA tx :
                  IF sp.acc < amount THEN [status |-> "err", tx |-> tx, acc |-> sp.acc]
                  ELSE Once(sign_transaction(b, tx, from),
                            LAMBDA s : [status |-> s.status, tx |-> s.tx, acc |-> sp.acc])))

----------------------------------------------------------------------------
(* main.rs: the operations on one data directory *)

NoChain == [db |-> <<>>, l |-> NoTip, tip |-> NoTip]

Init ==
    /\ bc = NoChain
    /\ utxo = <<>>
    /\ indexed = NoTip
    /\ pool = {}
    /\ world = {}
    /\ clock = 0
    /\ result = "ok"
    /\ nodes = <<>>
    /\ msgs = EmptyBag
    /\ threads = EmptyBag
    /\ started = {}

\* the transaction as it is before sign_transaction fills in the signatures
Unsigned(tx) ==
    [tx EXCEPT !.v_in = [i \in 1..Len(tx.v_in) |->
                            [tx.v_in[i] EXCEPT !.signature = EmptyBytes]]]

\* the transaction lists mine_block may be called with
Coinbases == {new_coinbase(a, "") : a \in Addresses}

TxLists ==
    LET S == pool \cup Coinbases
    IN  {<<t>> : t \in S} \cup {<<t1, t2>> : <<t1, t2>> \in {p \in S \X S : p[1] # p[2]}}

Range(f) == {f[i] : i \in DOMAIN f}

\* mine_block followed by update(block), as the Send command does:
\* [status, bc, utxo, indexed, block]
MineAndUpdate(b, u, ix, txs, ts) ==
    Once(mine_block(b, txs, ts),
         LAMBDA m :
           IF m.status # "ok"
           THEN [status |-> m.status, bc |-> b, utxo |-> u, indexed |-> ix,
                 mined |-> FALSE, block |-> m.block]
           ELSE Once(update(u, m.block),
                     LAMBDA r :
                       [status |-> r.status, bc |-> m.bc, utxo |-> r.u, mined |-> TRUE,
                        indexed |-> IF r.status = "ok" /\ ix = b.tip THEN m.bc.tip
                                    ELSE NoTip,
                        block |-> m.block]))

\* createblockchain --address a
CreateBlockChain(a) ==
    /\ clock < MaxBlocks
    /\ bc' = create(a, clock + 1)
    /\ utxo' = reindex(bc')
    /\ indexed' = bc'.tip
    /\ world' = world \cup {bc'.db[bc'.tip]}
    /\ clock' = clock + 1
    /\ result' = "ok"
    /\ UNCHANGED pool
    /\ UNCHANGED netvars

\* Transaction::new_utxo for a transaction that is mined later; the
\* transaction may also reach the miner without its signatures
NewUtxoCall(from, to, amount) ==
    /\ bc.l # NoTip
    /\ \E order \in Orders(DOMAIN utxo) :
         \E found \in {find_spendable_outputs(utxo, order, get_pub_key_hash(from), amount)} :
         \E ids \in Orders(FoundIds(found.outs)) :
         \E r \in {new_utxo(from, to, amount, bc, utxo, order, ids)} :
            /\ result' = r.status
            /\ \/ pool' = IF r.status = "ok" THEN pool \cup {r.tx} ELSE pool
               \/ /\ r.status = "ok"
                  /\ pool' = pool \cup {Unsigned(r.tx)}
    /\ UNCHANGED <<bc, utxo, indexed, world, clock>>
    /\ UNCHANGED netvars

NewUtxo(from, to, amount) ==
    /\ Cardinality(pool) < MaxPool
    /\ NewUtxoCall(from, to, amount)

\* Blockchain::mine_block(txs) followed by UTXOSet::update(block)
MineBlockCall(txs) ==
    /\ bc.l # NoTip
    /\ \E r \in {MineAndUpdate(bc, utxo, indexed, txs, clock + 1)} :
           /\ bc' = r.bc
           /\ utxo' = r.utxo
           /\ indexed' = r.indexed
           /\ world' = IF r.mined THEN world \cup {r.block} ELSE world
           /\ clock' = IF r.mined THEN clock + 1 ELSE clock
           /\ result' = r.status
    /\ UNCHANGED pool
    /\ UNCHANGED netvars

MineBlock(txs) ==
    /\ clock < MaxBlocks
    /\ MineBlockCall(txs)

\* send --from --to --amount --mine
Send(from, to, amount) ==
    /\ bc.l # NoTip
    /\ clock < MaxBlocks
    /\ \E order \in Orders(DOMAIN utxo) :
         \E found \in {find_spendable_outputs(utxo, order, get_pub_key_hash(from), amount)} :
         \E ids \in Orders(FoundIds(found.outs)) :
         \E t \in {new_utxo(from, to, amount, bc, utxo, order, ids)} :
            IF t.status # "ok"
            THEN /\ result' = t.status
                 /\ UNCHANGED <<bc, utxo, indexed, world, clock>>
            ELSE \E txs \in {<<new_coinbase(from, ""), t.tx>>} :
                 \E r \in {MineAndUpdate(bc, utxo, indexed, txs, clock + 1)} :
                    /\ bc' = r.bc
                    /\ utxo' = r.utxo
                    /\ indexed' = r.indexed
                    /\ world' = IF r.mined THEN world \cup {r.block} ELSE world
                    /\ clock' = IF r.mined THEN clock + 1 ELSE clock
                    /\ result' = r.status
    /\ UNCHANGED pool
    /\ UNCHANGED netvars

\* Blockchain::add_block of a block received from a peer
AddBlock(block) ==
    /\ bc' = add_block(bc, block)
    /\ indexed' = NoTip
    /\ result' = "ok"
    /\ UNCHANGED <<utxo, pool, world, clock>>
    /\ UNCHANGED netvars

\* UTXOSet::reindex
Reindex ==
    /\ bc.l # NoTip
    /\ utxo' = reindex(bc)
    /\ indexed' = bc.tip
    /\ result' = "ok"
    /\ UNCHANGED <<bc, pool, world, clock>>
    /\ UNCHANGED netvars

Next ==
    \/ \E a \in Addresses : CreateBlockChain(a)
    \/ \E from \in Addresses, to \in Addresses, amount \in Amounts : NewUtxo(from, to, amount)
    \/ \E txs \in TxLists : MineBlock(txs)
    \/ \E from \in Addresses, to \in Addresses, amount \in Amounts : Send(from, to, amount)
    \/ \E block \in world : AddBlock(block)
    \/ Reindex

Spec == Init /\ [][Next]_vars

----------------------------------------------------------------------------
(* The writes of create and add_block one at a time, and a crash between    *)
(* them: bc.db and bc.l are what the store holds, result is the point the   *)
(* running operation has reached, world holds the block it is writing       *)

\* a write of "l" that comes before the write of the block
insert_block_TipFirst(b, block) == [b EXCEPT !.l = block.hash]

\* db.insert(hash, block), the first write of create and of add_block
insert_block(b, block) == [b EXCEPT !.db = (block.hash :> block) @@ @]

\* an operation is between two of its writes
Writing == result \in {"create:wiped", "create:block", "add:block"}

\* Blockchain::create up to remove_dir_all
CreateWipe(a) ==
    /\ ~Writing
    /\ clock < MaxBlocks
    /\ bc' = NoChain
    /\ world' = {new_genesis_block(new_coinbase(a, GENESIS_COINBASE_DATA), clock + 1)}
    /\ clock' = clock + 1
    /\ result' = "create:wiped"
    /\ UNCHANGED <<utxo, indexed, pool>>
    /\ UNCHANGED netvars

\* Blockchain::mine_block up to the first write of add_block
MineInsert(txs) ==
    /\ ~Writing
    /\ clock < MaxBlocks
    /\ \E r \in {mine_block(bc, txs, clock + 1)} :
          IF r.status = "ok"
          THEN /\ bc' = insert_block(bc, r.block)
               /\ world' = {r.block}
               /\ clock' = clock + 1
               /\ result' = "add:block"
          ELSE /\ result' = r.status
               /\ UNCHANGED <<bc, world, clock>>
    /\ UNCHANGED <<utxo, indexed, pool>>
    /\ UNCHANGED netvars

\* the next write of the running operation: the genesis block, or "l"
WriteStep ==
    /\ Writing
    /\ \E block \in world :
          IF result = "create:wiped"
          THEN /\ bc' = insert_block(bc, block)
               /\ result' = "create:block"
               /\ UNCHANGED world
          ELSE /\ bc' = [bc EXCEPT !.l = block.hash, !.tip = block.hash]
               /\ result' = "ok"
               /\ world' = {}
    /\ UNCHANGED <<utxo, indexed, pool, clock>>
    /\ UNCHANGED netvars

\* the process dies between two writes and is started again: Blockchain::new
\* reads "l" from the store
Crash ==
    /\ Writing
    /\ bc' = [bc EXCEPT !.tip = bc.l]
    /\ result' = "ok"
    /\ world' = {}
    /\ UNCHANGED <<utxo, indexed, pool, clock>>
    /\ UNCHANGED netvars

NextCrash ==
    \/ \E a \in Addresses : CreateWipe(a)
    \/ \E txs \in TxLists : MineInsert(txs)
    \/ WriteStep
    \/ Crash
    \/ ~Writing /\ Reindex
    \/ \E from \in Addresses, to \in Addresses, amount \in Amounts :
          ~Writing /\ NewUtxo(from, to, amount)

SpecCrash == Init /\ [][NextCrash]_vars

----------------------------------------------------------------------------
(* A wallet that spends from one chain: transactions are built by new_utxo *)
(* and each is mined into a block of its own, which is applied to the      *)
(* index with update                                                        *)

\* number of transactions new_utxo builds in one behaviour of SpecSpend
MaxSpends == 3
\* number of blocks on the chain of SpecSpend, the genesis block included
MaxSpendBlocks == 4

\* the data directory after createblockchain --address a
InitSpend ==
    /\ \E a \in Addresses :
          /\ bc = create(a, 1)
          /\ utxo = reindex(bc)
          /\ indexed = bc.tip
          /\ world = {bc.db[bc.tip]}
    /\ pool = {}
    /\ clock = 1
    /\ result = "ok"
    /\ nodes = <<>>
    /\ msgs = EmptyBag
    /\ threads = EmptyBag
    /\ started = {}

NextSpend ==
    \/ \E from \in Addresses, to \in Addresses, amount \in Amounts :
          /\ Cardinality(pool) < MaxSpends
          /\ NewUtxoCall(from, to, amount)
    \/ \E t \in pool :
          /\ clock < MaxSpendBlocks
          /\ MineBlockCall(<<t>>)

SpecSpend == InitSpend /\ [][NextSpend]_vars

----------------------------------------------------------------------------
(* The wallet of SpecSpend with every kind of amount: new_utxo takes an i32 *)

\* amounts of either sign, and zero
SignedAmounts == {-4, 0} \cup Amounts

NextAmount ==
    \/ \E from \in Addresses, to \in Addresses, amount \in SignedAmounts :
          /\ Cardinality(pool) < MaxPool
          /\ NewUtxoCall(from, to, amount)
    \/ \E t \in pool :
          /\ clock < MaxBlocks
          /\ MineBlockCall(<<t>>)

SpecAmount == InitSpend /\ [][NextAmount]_vars

----------------------------------------------------------------------------
(* Properties of the block store *)

\* the walk from the tip: every block visited is stored, the heights go down
\* by one, and the last block visited is the genesis block
ChainLinked(b) ==
    LET chain == iter(b)
        n     == Len(chain)
    IN  /\ b.tip \in DOMAIN b.db
        /\ n = b.db[b.tip].height + 1
        /\ \A i \in 1..(n - 1) :
              /\ chain[i].prev_block_hash \in DOMAIN b.db
              /\ chain[i + 1].height = chain[i].height - 1
        /\ chain[n].prev_block_hash = ZeroHash
        /\ chain[n].height = 0

\* the tip is a stored block of greatest height
TipIsHighest(b) ==
    /\ b.l \in DOMAIN b.db
    /\ \A h \in DOMAIN b.db : b.db[h].height <= b.db[b.l].height

\* C1: after any sequence of create, mine_block and add_block the walk from
\* the tip along prev_hash visits only stored blocks, each one level lower,
\* and ends at the genesis block after tip.height + 1 steps
C1_ChainLink == bc.l # NoTip => ChainLinked(bc)

\* C2: add_block always stores the block, moves the tip only to a block that
\* is strictly higher than the current tip, and so the tip is always a stored
\* block of greatest height
C2_AddBlockKeepsHighestTip ==
    [][\A block \in world :
          AddBlock(block) =>
             /\ block.hash \in DOMAIN bc'.db
             /\ bc'.db[block.hash] = block
             /\ (block.height <= HeightOf(bc.db, bc.l) => bc'.l = bc.l /\ bc'.tip = bc.tip)
             /\ (TipIsHighest(bc) => TipIsHighest(bc'))]_vars

----------------------------------------------------------------------------
(* Properties of the UTXO index *)

\* the <<tx_id, v_out>> pairs referenced by the inputs on the chain
SpentOnChain(b) ==
    LET txs == ChainTxs(b)
    IN  UNION {{<<txs[k].v_in[i].tx_id, txs[k].v_in[i].v_out>> : i \in 1..Len(txs[k].v_in)} :
                  k \in {j \in 1..Len(txs) : ~is_coinbase(txs[j])}}

\* the outputs of the chain transaction `id` that no input on the chain references
UnspentOf(b, id) ==
    LET tx   == find_transaction(b, id)
        free == SelectSeq([i \in 1..Len(tx.v_out) |-> i],
                          LAMBDA i : <<id, i - 1>> \notin SpentOnChain(b))
    IN  [j \in 1..Len(free) |-> tx.v_out[free[j]]]

\* s is t with some elements left out
IsSubSeq(s, t) ==
    \E f \in [1..Len(s) -> 1..Len(t)] :
       /\ \A i, j \in 1..Len(s) : i < j => f[i] < f[j]
       /\ \A i \in 1..Len(s) : s[i] = t[f[i]]

OnlyUnspent(b, u) ==
    \A id \in DOMAIN u :
       /\ HasTransaction(b, id)
       /\ u[id] # <<>>
       /\ IsSubSeq(u[id], UnspentOf(b, id))

\* the index was written by reindex, or by update calls that followed it
UpToDate == bc.l # NoTip /\ indexed = bc.tip

\* C3: after reindex and every later update(block), a record of the index
\* holds only outputs no input on the chain references, and a transaction
\* with no such output has no record
C3_RecordsOnlyUnspent == UpToDate => OnlyUnspent(bc, utxo)

\* C4: after reindex and any number of mine_block + update(block), the records
\* of the index are the records reindex() would write at that point
C4_UpdateEqualsReindex == UpToDate => utxo = reindex(bc)

\* C5: send --from A --to B --amount n --mine with A # B and n affordable
\* lowers the balance of A by n and raises the balance of B by n
C5_SendMovesAmount ==
    [][\A from \in Addresses, to \in Addresses, amount \in Amounts :
          (/\ from # to
           /\ UpToDate
           /\ Balance(utxo, from) >= amount
           /\ Send(from, to, amount))
          => /\ Balance(utxo', from) = Balance(utxo, from) - amount
             /\ Balance(utxo', to) = Balance(utxo, to) + amount]_vars

\* some transaction of the list fails verification: verify returns false or an error
FailsVerification(b, txs) ==
    \E i \in 1..Len(txs) : verify_transaction(b, txs[i]) \in {"false", "err"}

\* C10: if a transaction passed to mine_block fails verification, mine_block
\* returns an error and the store, the "l" key and the in-memory tip are unchanged
C10_MineBlockRejects ==
    [][\A txs \in TxLists :
          (FailsVerification(bc, txs) /\ MineBlock(txs))
          => (result' = "err" /\ bc' = bc)]_vars

\* every transaction of the pool carries its signatures
AllSigned ==
    \A t \in pool : \A i \in 1..Len(t.v_in) : t.v_in[i].signature # EmptyBytes

RefValue(b, in) ==
    IF ~HasTransaction(b, in.tx_id) THEN 0
    ELSE Once(find_transaction(b, in.tx_id),
              LAMBDA prev : IF in.v_out >= 0 /\ in.v_out + 1 <= Len(prev.v_out)
                            THEN prev.v_out[in.v_out + 1].value ELSE 0)

RECURSIVE SumRefValues(_, _, _)
SumRefValues(b, v_in, k) ==
    IF k > Len(v_in) THEN 0 ELSE RefValue(b, v_in[k]) + SumRefValues(b, v_in, k + 1)

RECURSIVE SumValues(_, _)
SumValues(v_out, k) ==
    IF k > Len(v_out) THEN 0 ELSE v_out[k].value + SumValues(v_out, k + 1)

\* C12: for every non-coinbase transaction in a block of the chain, the
\* values of the chain outputs its inputs reference add up to at least the
\* sum of the values of its own outputs
C12_InputsCoverOutputs ==
    \A tx \in Range(ChainTxs(bc)) :
       ~is_coinbase(tx) => SumRefValues(bc, tx.v_in, 1) >= SumValues(tx.v_out, 1)

\* C13: every transaction produced by new_coinbase or by new_utxo (signed
\* inputs included) has the id that hashing it with the id cleared gives
C13_IdIsHash ==
    \A t \in pool \cup Coinbases : t.id = TxHash(t)

\* the list holds a coinbase, and every other transaction of it verifies
CoinbaseList(b, txs) ==
    /\ \E i \in 1..Len(txs) : is_coinbase(txs[i])
    /\ \A i \in 1..Len(txs) :
          is_coinbase(txs[i]) \/ verify_transaction(b, txs[i]) = "true"

\* C15: a coinbase transaction verifies as true without a look-up of a
\* previous transaction, so mine_block mines a list that holds a coinbase
C15_CoinbaseVerifies ==
    [][\A txs \in TxLists :
          (CoinbaseList(bc, txs) /\ MineBlock(txs))
          => /\ \A i \in 1..Len(txs) :
                   is_coinbase(txs[i]) => verify_transaction(bc, txs[i]) = "true"
             /\ bc'.tip # bc.tip
             /\ bc'.tip \in DOMAIN bc'.db
             /\ bc'.db[bc'.tip].transactions = txs]_vars

\* new_utxo finds enough outputs in the index, and in whatever order the
\* index is read some output found belongs to a transaction not on the chain
SignsMissingPrevTx(from, amount) ==
    \A order \in Orders(DOMAIN utxo) :
       \E sp \in {find_spendable_outputs(utxo, order, get_pub_key_hash(from), amount)} :
          /\ sp.acc >= amount
          /\ \E k \in 1..Len(sp.outs) : ~HasTransaction(bc, sp.outs[k][1])

\* C16: when an input references a tx_id that is not found on the chain,
\* sign_transaction (in new_utxo) and verify_transaction (in mine_block)
\* return an error to the caller and no state changes
C16_MissingPrevTxIsError ==
    [][/\ \A t \in pool :
             (MissingPrevTx(bc, t) /\ MineBlock(<<t>>))
             => (result' = "err" /\ bc' = bc /\ utxo' = utxo /\ pool' = pool)
       /\ \A from \in Addresses, to \in Addresses, amount \in Amounts :
             (SignsMissingPrevTx(from, amount) /\ NewUtxo(from, to, amount))
             => (result' = "err" /\ bc' = bc /\ utxo' = utxo /\ pool' = pool)]_vars

\* C17: each time a block whose only transaction is a coinbase paying M is
\* mined and applied to the index with update, the balance of M goes up by
\* exactly SUBSIDY
C17_CoinbaseBlockPaysSubsidy ==
    [][\A a \in Addresses :
          (UpToDate /\ MineBlock(<<new_coinbase(a, "")>>))
          => Balance(utxo', a) = Balance(utxo, a) + SUBSIDY]_vars

\* C18: after create(A) and reindex, whatever was there before, the store
\* holds exactly the genesis block (zero prev_hash, one coinbase to A), the
\* tip is its hash, the best height is 0, and the index gives A a balance of
\* SUBSIDY and every other address a balance of 0
C18_CreateStartsFresh ==
    [][\A a \in Addresses :
          CreateBlockChain(a)
          => /\ Cardinality(DOMAIN bc'.db) = 1
             /\ bc'.tip \in DOMAIN bc'.db
             /\ bc'.l = bc'.tip
             /\ bc'.db[bc'.tip].hash = bc'.tip
             /\ bc'.db[bc'.tip].prev_block_hash = ZeroHash
             /\ bc'.db[bc'.tip].transactions = <<new_coinbase(a, GENESIS_COINBASE_DATA)>>
             /\ HeightOf(bc'.db, bc'.l) = 0
             /\ Balance(utxo', a) = SUBSIDY
             /\ \A o \in Addresses \ {a} : Balance(utxo', o) = 0]_vars

\* a chain with a mined block and a payment in its index was replaced by create
C18_CreatedOverChain ==
    /\ Cardinality(DOMAIN bc.db) = 1
    /\ UpToDate
    /\ \E block \in world : block.height = 1 /\ block.hash \notin DOMAIN bc.db

----------------------------------------------------------------------------
(* server.rs: the node *)

CENTERAL_NODE == "localhost:3000"
OtherNode == "localhost:3001"
\* the node_address of the Server that send_transaction builds; it never listens
CliNode == "localhost:6969"

\* a Message on its way to the listener of `to`; a block or a transaction is
\* carried as a sequence of length one
Msg(to, type, addr_from, kind, items, block, tx) ==
    [to |-> to, type |-> type, addr_from |-> addr_from, kind |-> kind,
     items |-> items, block |-> block, tx |-> tx]

\* transaction.hash_val, the key of the mempool and the item of Inv{kind: "tx"}
hash_val(tx) == <<"raw", tx.id>>

\* Blockchain::get_best_height: the height of the tip block, -1 without a chain
get_best_height(b) == HeightOf(b.db, b.l)

\* Blockchain::get_block_hashs: the hashes from the tip backwards
get_block_hashs(b) == [i \in 1..Len(iter(b)) |-> iter(b)[i].hash]

\* ServerBuilder::build
ServerBuild(b, u, miner_address) ==
    [known_nodes |-> {CENTERAL_NODE}, bc |-> b, utxo |-> u,
     blocks_in_transit |-> <<>>, mempool |-> <<>>,
     mining_address |-> miner_address, poisoned |-> FALSE]

\* the effect of one step of a thread of node n: the nodes, the messages in
\* flight, and whether the thread is still alive (it dies when it panics)
Effect(ns, ms, alive) == [nodes |-> ns, msgs |-> ms, alive |-> alive]

\* a failed connection that leaves the peer in known_nodes
send_message_KeepsPeer(e, n, addr, m) ==
    IF ~e.alive \/ addr = n \/ addr \notin DOMAIN e.nodes THEN e
    ELSE Effect(e.nodes, e.msgs (+) SetToBag({m}), TRUE)

\* Server::send_data: nothing is sent to oneself; a refused connection removes
\* the peer (remove_node takes the write lock); otherwise the message is written
send_message(e, n, addr, m) ==
    IF ~e.alive \/ addr = n THEN e
    ELSE IF addr \notin DOMAIN e.nodes
         THEN IF e.nodes[n].poisoned THEN Effect(e.nodes, e.msgs, FALSE)
              ELSE Effect([e.nodes EXCEPT ![n].known_nodes = @ \ {addr}], e.msgs, TRUE)
    ELSE Effect(e.nodes, e.msgs (+) SetToBag({m}), TRUE)

\* the message m sent to every node of `to`, one after the other
RECURSIVE send_all(_, _, _, _)
send_all(e, n, to, m) ==
    IF to = {} THEN e
    ELSE LET addr == CHOOSE a \in to : TRUE
         IN  Once(send_message(e, n, addr, [m EXCEPT !.to = addr]),
                  LAMBDA e2 : send_all(e2, n, to \ {addr}, m))

InvMsg(to, n, kind, items) == Msg(to, "Inv", n, kind, items, <<>>, <<>>)
GetDataMsg(to, n, kind, id) == Msg(to, "GetData", n, kind, <<id>>, <<>>, <<>>)
GetBlocksMsg(to, n) == Msg(to, "GetBlocks", n, "", <<>>, <<>>, <<>>)
BlockMsg(to, n, block) == Msg(to, "Block", n, "", <<>>, <<block>>, <<>>)
TxMsg(to, n, tx) == Msg(to, "Tx", n, "", <<>>, <<>>, <<tx>>)
VersionMsg(to, n, h) == Msg(to, "Version", n, "", <<<<"height", h>>>>, <<>>, <<>>)
\* Message::Addr has no addr_from; nodes is the set get_known_nodes returns
AddrMsg(to, known) == Msg(to, "Addr", "", "", <<<<"nodes", known>>>>, <<>>, <<>>)

\* a handler thread of node n between two lock sections, with its locals
Thread(n, type, pc, addr_from, block, tx, in_transit, mempool, todo, txs) ==
    [node |-> n, type |-> type, pc |-> pc, addr_from |-> addr_from,
     block |-> block, tx |-> tx, in_transit |-> in_transit,
     mempool |-> mempool, todo |-> todo, txs |-> txs]

\* the messages waiting at the listener of n
Inbox(n, type) == {m \in BagToSet(msgs) : m.to = n /\ m.type = type}

\* the threads of node n that run the handler of `type`
Running(n, type) == {t \in BagToSet(threads) : t.node = n /\ t.type = type}

\* the node can take one more connection
CanSpawn(n) == BagCardinality([t \in {u \in BagToSet(threads) : u.node = n} |-> threads[t]]) < MaxThreads

Take(bag, x) == bag (-) SetToBag({x})
Put(bag, x) == bag (+) SetToBag({x})

\* the effect e of a step on the nodes and the network; the variables of the
\* command line operations are untouched
Handled(e) ==
    /\ nodes' = e.nodes
    /\ msgs' = e.msgs
    /\ UNCHANGED <<bc, utxo, indexed, pool, world, result>>

\* Blockchain::get_block: the stored block, if there is one
has_block(b, h) == h \in DOMAIN b.db

\* Server::start, the thread spawned before the listener: request_blocks when
\* there is no chain, a Version message to the central node otherwise
Start(n) ==
    /\ n \in DOMAIN nodes \ started
    /\ started' = started \cup {n}
    /\ LET h  == get_best_height(nodes[n].bc)
           e0 == Effect(nodes, msgs, TRUE)
       IN  Handled(IF h = -1
                   THEN send_all(e0, n, nodes[n].known_nodes, GetBlocksMsg(n, n))
                   ELSE send_message(e0, n, CENTERAL_NODE, VersionMsg(CENTERAL_NODE, n, h)))
    /\ UNCHANGED <<threads, clock>>

\* Message::GetBlocks: one read-lock section, then the Inv
HandleGetBlocks(n) ==
    /\ \E m \in Inbox(n, "GetBlocks") :
         LET e0 == Effect(nodes, Take(msgs, m), TRUE)
         IN  Handled(IF nodes[n].poisoned THEN e0
                     ELSE send_message(e0, n, m.addr_from,
                                       InvMsg(m.addr_from, n, "block",
                                              get_block_hashs(nodes[n].bc))))
    /\ UNCHANGED <<threads, clock, started>>

\* Message::Inv{kind: "block"}: GetData for items[0], then replace_in_transit
InvBlock(n, m, e0) ==
    IF m.items = <<>> THEN e0
    ELSE Once(send_message(e0, n, m.addr_from,
                           GetDataMsg(m.addr_from, n, "block", m.items[1])),
              LAMBDA e : IF ~e.alive \/ e.nodes[n].poisoned THEN e
                         ELSE Effect([e.nodes EXCEPT ![n].blocks_in_transit =
                                         SelectSeq(m.items, LAMBDA h : h # m.items[1])],
                                     e.msgs, TRUE))

\* Message::Inv{kind: "tx"}: GetData unless the mempool holds the transaction
InvTx(n, m, e0) ==
    IF m.items = <<>> \/ nodes[n].poisoned THEN e0
    ELSE IF m.items[1] \in DOMAIN nodes[n].mempool
            /\ nodes[n].mempool[m.items[1]].id # EmptyBytes
         THEN e0
    ELSE send_message(e0, n, m.addr_from, GetDataMsg(m.addr_from, n, "tx", m.items[1]))

HandleInv(n) ==
    /\ \E m \in Inbox(n, "Inv") :
         LET e0 == Effect(nodes, Take(msgs, m), TRUE)
         IN  Handled(IF m.kind = "block" THEN InvBlock(n, m, e0)
                     ELSE IF m.kind = "tx" THEN InvTx(n, m, e0)
                     ELSE e0)
    /\ UNCHANGED <<threads, clock, started>>

\* Message::GetData: the block from the store, or the transaction from the mempool
HandleGetData(n) ==
    /\ \E m \in Inbox(n, "GetData") :
         LET e0 == Effect(nodes, Take(msgs, m), TRUE)
             id == m.items[1]
         IN  Handled(IF nodes[n].poisoned THEN e0
                     ELSE IF m.kind = "block" /\ has_block(nodes[n].bc, id)
                          THEN send_message(e0, n, m.addr_from,
                                            BlockMsg(m.addr_from, n, nodes[n].bc.db[id]))
                     ELSE IF m.kind = "tx" /\ id \in DOMAIN nodes[n].mempool
                          THEN send_message(e0, n, m.addr_from,
                                            TxMsg(m.addr_from, n, nodes[n].mempool[id]))
                     ELSE e0)
    /\ UNCHANGED <<threads, clock, started>>

\* Message::Block, the first lock section: add_block
BlockReceive(n) ==
    /\ CanSpawn(n)
    /\ \E m \in Inbox(n, "Block") :
         /\ msgs' = Take(msgs, m)
         /\ IF nodes[n].poisoned
            THEN UNCHANGED <<nodes, threads>>
            ELSE /\ nodes' = [nodes EXCEPT ![n].bc = add_block(@, m.block[1])]
                 /\ threads' = Put(threads, Thread(n, "Block", "in_transit", m.addr_from,
                                                   m.block, <<>>, <<>>, <<>>, <<>>, <<>>))
    /\ UNCHANGED <<bc, utxo, indexed, pool, world, result, clock, started>>

\* Message::Block, the later lock sections: get_in_transit and the GetData for
\* the next hash, then replace_in_transit; or utxo_reindex when nothing is left
BlockStep(n) ==
    /\ \E t \in Running(n, "Block") :
         LET e0 == Effect(nodes, msgs, TRUE)
             tr == nodes[n].blocks_in_transit
         IN  IF nodes[n].poisoned
             THEN /\ threads' = Take(threads, t)
                  /\ UNCHANGED <<nodes, msgs>>
             ELSE IF t.pc = "in_transit" /\ tr # <<>>
             THEN \E e \in {send_message(e0, n, t.addr_from,
                                         GetDataMsg(t.addr_from, n, "block", tr[1]))} :
                     /\ nodes' = e.nodes
                     /\ msgs' = e.msgs
                     /\ threads' = IF e.alive
                                   THEN Put(Take(threads, t),
                                            [t EXCEPT !.pc = "replace", !.in_transit = Tail(tr)])
                                   ELSE Take(threads, t)
             ELSE IF t.pc = "in_transit"
             THEN /\ threads' = Put(Take(threads, t), [t EXCEPT !.pc = "reindex"])
                  /\ UNCHANGED <<nodes, msgs>>
             ELSE IF t.pc = "replace"
             THEN /\ nodes' = [nodes EXCEPT ![n].blocks_in_transit = t.in_transit]
                  /\ threads' = Take(threads, t)
                  /\ UNCHANGED msgs
             ELSE /\ nodes' = [nodes EXCEPT ![n].utxo = reindex(nodes[n].bc)]
                  /\ threads' = Take(threads, t)
                  /\ UNCHANGED msgs
    /\ UNCHANGED <<bc, utxo, indexed, pool, world, result, clock, started>>

----------------------------------------------------------------------------
(* Initial block download: a node without a chain next to the central node *)

\* number of blocks of the chain the central node holds at most
MaxChain == 3

NodeAddrs == {CENTERAL_NODE, OtherNode}

\* the data directory after one more `new_utxo, mine_block, update`; unchanged
\* when the transaction cannot be built
Grow(s, from, to, amount, ts) ==
    Once(new_utxo(from, to, amount, s.bc, s.utxo,
                  CHOOSE o \in Orders(DOMAIN s.utxo) : TRUE,
                  CHOOSE o \in Orders(DOMAIN s.utxo) : TRUE),
         LAMBDA t :
           IF t.status # "ok" THEN s
           ELSE Once(MineAndUpdate(s.bc, s.utxo, s.bc.tip, <<t.tx>>, ts),
                     LAMBDA r : IF r.status = "ok" THEN [bc |-> r.bc, utxo |-> r.utxo]
                                ELSE s))

\* the data directories that hold a chain of k blocks
RECURSIVE ChainStates(_)
ChainStates(k) ==
    IF k = 1
    THEN {[bc |-> create(a, 1), utxo |-> reindex(create(a, 1))] : a \in Addresses}
    ELSE {s \in {Grow(p[1], p[2], p[3], p[4], k) :
                    p \in ChainStates(k - 1) \X Addresses \X Addresses \X Amounts} :
             get_best_height(s.bc) = k - 1}

NoStore ==
    /\ bc = NoChain
    /\ utxo = <<>>
    /\ indexed = NoTip
    /\ pool = {}
    /\ world = {}
    /\ result = "ok"

InitSync ==
    /\ NoStore
    /\ \E k \in 1..MaxChain :
         /\ clock = k
         /\ \E s \in ChainStates(k) :
              nodes = (CENTERAL_NODE :> ServerBuild(s.bc, s.utxo, ""))
                      @@ (OtherNode :> ServerBuild(NoChain, <<>>, ""))
    /\ msgs = EmptyBag
    /\ threads = EmptyBag
    /\ started = {}

NextSync ==
    \/ \E n \in NodeAddrs : Start(n)
    \/ \E n \in NodeAddrs : HandleGetBlocks(n)
    \/ \E n \in NodeAddrs : HandleInv(n)
    \/ \E n \in NodeAddrs : HandleGetData(n)
    \/ \E n \in NodeAddrs : BlockReceive(n)
    \/ \E n \in NodeAddrs : BlockStep(n)

SpecSync == InitSync /\ [][NextSync]_vars

\* every message is delivered and every handler thread keeps running
FairSync == SpecSync /\ WF_vars(NextSync)

----------------------------------------------------------------------------
(* server.rs: the Tx handler *)

\* the outcome of one step of a Tx handler thread: the nodes, the messages,
\* the thread that remains (none when the handler returned or panicked), and
\* whether a block was mined
TxOutcome(ns, ms, th, mined) == [nodes |-> ns, msgs |-> ms, thread |-> th, mined |-> mined]

\* the central node: an Inv for every known node but itself and the sender
TxRelay(n, t) ==
    Once(send_all(Effect(nodes, msgs, TRUE), n, nodes[n].known_nodes \ {n, t.addr_from},
                  InvMsg(n, n, "tx", <<hash_val(t.tx[1])>>)),
         LAMBDA e : TxOutcome(e.nodes, e.msgs, <<>>, FALSE))

\* the miner: get_mempool, the snapshot the loop works on
TxSnapshot(n, t, order) ==
    IF nodes[n].mempool = <<>> THEN TxOutcome(nodes, msgs, <<>>, FALSE)
    ELSE TxOutcome(nodes, msgs,
                   <<[t EXCEPT !.pc = "verify", !.mempool = nodes[n].mempool,
                               !.todo = order, !.txs = <<>>]>>, FALSE)

\* the miner: verify_tx of the next transaction of the snapshot; after the
\* last one the coinbase is pushed and the chosen transactions leave the snapshot
TxVerify(n, t) ==
    LET tx   == t.mempool[t.todo[1]]
        v    == verify_transaction(nodes[n].bc, tx)
        txs  == IF v = "true" THEN Append(t.txs, tx) ELSE t.txs
        cbtx == new_coinbase(nodes[n].mining_address, "")
        all  == Append(txs, cbtx)
        left == {h \in DOMAIN t.mempool : \A i \in 1..Len(all) : hash_val(all[i]) # h}
    IN  IF v \in {"panic", "err"} THEN TxOutcome(nodes, msgs, <<>>, FALSE)
        ELSE IF Len(t.todo) > 1
             THEN TxOutcome(nodes, msgs, <<[t EXCEPT !.todo = Tail(t.todo), !.txs = txs]>>, FALSE)
        ELSE IF txs = <<>> THEN TxOutcome(nodes, msgs, <<>>, FALSE)
        ELSE TxOutcome(nodes, msgs,
                       <<[t EXCEPT !.pc = "mine", !.todo = <<>>, !.txs = all,
                                   !.mempool = [h \in left |-> t.mempool[h]]]>>, FALSE)

\* the miner: mine_block inside with_write_lock; a panic there poisons the lock
TxMine(n, t) ==
    Once(mine_block(nodes[n].bc, t.txs, clock + 1),
         LAMBDA r :
           IF r.status = "panic"
           THEN TxOutcome([nodes EXCEPT ![n].poisoned = TRUE], msgs, <<>>, FALSE)
           ELSE IF r.status = "err" THEN TxOutcome(nodes, msgs, <<>>, FALSE)
           ELSE TxOutcome([nodes EXCEPT ![n].bc = r.bc], msgs,
                          <<[t EXCEPT !.pc = "reindex", !.block = <<r.block>>]>>, TRUE))

\* the miner: utxo_reindex, a write-lock section of its own
TxReindex(n, t) ==
    TxOutcome([nodes EXCEPT ![n].utxo = reindex(nodes[n].bc)], msgs,
              <<[t EXCEPT !.pc = "announce"]>>, FALSE)

\* the miner: the Inv of the new block for every known node but itself, then
\* the next round of the loop, or clear_mempool when the snapshot is empty
TxAnnounce(n, t, order) ==
    Once(send_all(Effect(nodes, msgs, TRUE), n, nodes[n].known_nodes \ {n},
                  InvMsg(n, n, "block", <<t.block[1].hash>>)),
         LAMBDA e :
           TxOutcome(e.nodes, e.msgs,
                     IF ~e.alive THEN <<>>
                     ELSE IF t.mempool = <<>> THEN <<[t EXCEPT !.pc = "clear"]>>
                     ELSE <<[t EXCEPT !.pc = "verify", !.todo = order, !.txs = <<>>]>>,
                     FALSE))

TxClear(n, t) ==
    TxOutcome([nodes EXCEPT ![n].mempool = <<>>], msgs, <<>>, FALSE)

\* the iteration orders of the map a step walks through
TxOrders(n, t) ==
    IF t.pc = "snapshot" THEN Orders(DOMAIN nodes[n].mempool)
    ELSE IF t.pc = "announce" THEN Orders(DOMAIN t.mempool)
    ELSE {<<>>}

TxEffect(n, t, order) ==
    IF nodes[n].poisoned THEN TxOutcome(nodes, msgs, <<>>, FALSE)
    ELSE IF t.pc = "relay" THEN TxRelay(n, t)
    ELSE IF t.pc = "snapshot" THEN TxSnapshot(n, t, order)
    ELSE IF t.pc = "verify" THEN TxVerify(n, t)
    ELSE IF t.pc = "mine" THEN TxMine(n, t)
    ELSE IF t.pc = "reindex" THEN TxReindex(n, t)
    ELSE IF t.pc = "announce" THEN TxAnnounce(n, t, order)
    ELSE TxClear(n, t)

\* Message::Tx, the first lock section: insert_mempool
TxReceive(n) ==
    /\ CanSpawn(n)
    /\ \E m \in Inbox(n, "Tx") :
         /\ msgs' = Take(msgs, m)
         /\ IF nodes[n].poisoned
            THEN UNCHANGED <<nodes, threads>>
            ELSE /\ nodes' = [nodes EXCEPT ![n].mempool =
                                 Insert(@, hash_val(m.tx[1]), m.tx[1])]
                 /\ threads' =
                      IF n = CENTERAL_NODE \/ nodes[n].mining_address # ""
                      THEN Put(threads,
                               Thread(n, "Tx",
                                      IF n = CENTERAL_NODE THEN "relay" ELSE "snapshot",
                                      m.addr_from, <<>>, m.tx, <<>>, <<>>, <<>>, <<>>))
                      ELSE threads
    /\ UNCHANGED <<bc, utxo, indexed, pool, world, result, clock, started>>

\* Message::Tx, one later lock section
TxStep(n) ==
    /\ \E t \in Running(n, "Tx") :
       \E order \in TxOrders(n, t) :
       \E o \in {TxEffect(n, t, order)} :
          /\ nodes' = o.nodes
          /\ msgs' = o.msgs
          /\ threads' = IF o.thread = <<>> THEN Take(threads, t)
                        ELSE Put(Take(threads, t), o.thread[1])
          /\ clock' = IF o.mined THEN clock + 1 ELSE clock
    /\ UNCHANGED <<bc, utxo, indexed, pool, world, result, started>>

----------------------------------------------------------------------------
(* A central node, a miner, and the command line of a third data directory *)

\* the miner_address the miner was started with
MinerAddress == "A1"

\* send --from --to --amount without --mine: new_utxo against the local data
\* directory, then Server::send_transaction to the central node
CliSend(from, to, amount) ==
    /\ Cardinality(pool) < MaxPool
    /\ \E order \in Orders(DOMAIN utxo) :
       \E found \in {find_spendable_outputs(utxo, order, get_pub_key_hash(from), amount)} :
       \E ids \in Orders(FoundIds(found.outs)) :
       \E t \in {new_utxo(from, to, amount, bc, utxo, order, ids)} :
          /\ t.status = "ok"
          /\ t.tx \notin pool
          /\ pool' = pool \cup {t.tx}
          /\ \E e \in {send_message(Effect(nodes, msgs, TRUE), CliNode, CENTERAL_NODE,
                                    TxMsg(CENTERAL_NODE, CliNode, t.tx))} :
                /\ nodes' = nodes
                /\ msgs' = e.msgs
    /\ UNCHANGED <<bc, utxo, indexed, world, result, clock, threads, started>>

\* both nodes and the command line hold the same chain; the start-up exchange
\* is over: the miner knows the central node and the central node the miner
InitRelay ==
    /\ \E k \in 1..(MaxChain - 1) :
         /\ clock = k
         /\ \E s \in ChainStates(k) :
              /\ bc = s.bc
              /\ utxo = s.utxo
              /\ indexed = s.bc.tip
              /\ nodes = (CENTERAL_NODE :>
                            [ServerBuild(s.bc, s.utxo, "") EXCEPT
                                !.known_nodes = {CENTERAL_NODE, OtherNode}])
                         @@ (OtherNode :> ServerBuild(s.bc, s.utxo, MinerAddress))
    /\ pool = {}
    /\ world = {}
    /\ result = "ok"
    /\ msgs = EmptyBag
    /\ threads = EmptyBag
    /\ started = NodeAddrs

NextRelay ==
    \/ \E from \in Addresses, to \in Addresses, amount \in Amounts : CliSend(from, to, amount)
    \/ \E n \in NodeAddrs : TxReceive(n)
    \/ \E n \in NodeAddrs : TxStep(n)
    \/ \E n \in NodeAddrs : HandleInv(n)
    \/ \E n \in NodeAddrs : HandleGetData(n)

SpecRelay == InitRelay /\ [][NextRelay]_vars

\* every message is delivered and every handler thread keeps running
FairRelay == SpecRelay /\ WF_vars(NextRelay)

----------------------------------------------------------------------------
(* A listening node and a peer that writes Block messages to its port: the *)
(* blocks of the node's own chain, and blocks whose transactions were      *)
(* replaced after the proof of work was run                                *)

\* number of Block messages the peer sends in one behaviour
MaxPeerBlocks == 2

PeerAddr == "localhost:4000"

\* the block with its transactions replaced and its hash left as it was
Tampered(block, a) ==
    [block EXCEPT !.transactions = <<new_coinbase(a, "forged")>>]

\* the blocks the peer may send to node n
PeerBlocks(n) ==
    LET own == Range(nodes[n].bc.db)
    IN  own \cup {Tampered(block, a) : block \in own, a \in Addresses}

InitPeer ==
    /\ NoStore
    /\ \E k \in 1..2 :
         /\ clock = k
         /\ \E s \in ChainStates(k) :
              nodes = (CENTERAL_NODE :> ServerBuild(s.bc, s.utxo, ""))
    /\ msgs = EmptyBag
    /\ threads = EmptyBag
    /\ started = {CENTERAL_NODE}

\* the peer connects to n and writes a Block message
PeerSendsBlock(n) ==
    /\ Cardinality(world) < MaxPeerBlocks
    /\ \E block \in PeerBlocks(n) \ world :
         /\ world' = world \cup {block}
         /\ msgs' = Put(msgs, BlockMsg(n, PeerAddr, block))
    /\ UNCHANGED <<bc, utxo, indexed, pool, clock, result, nodes, threads, started>>

NextPeer ==
    \/ PeerSendsBlock(CENTERAL_NODE)
    \/ BlockReceive(CENTERAL_NODE)
    \/ BlockStep(CENTERAL_NODE)

SpecPeer == InitPeer /\ [][NextPeer]_vars

\* C19: every block in the block store of a node has the hash it is stored
\* under, and that hash is the proof-of-work hash of its contents; a received
\* block that fails the check is never stored
C19_StoredBlocksValid ==
    \A n \in DOMAIN nodes :
       \A h \in DOMAIN nodes[n].bc.db :
          /\ nodes[n].bc.db[h].hash = h
          /\ validate(nodes[n].bc.db[h])

\* C20: the value stored under a block hash never changes: a block that is
\* in the store stays there with the same contents when a Block message is
\* handled
C20_BlocksImmutable ==
    [][\A n \in DOMAIN nodes :
          \A h \in DOMAIN nodes[n].bc.db :
             /\ h \in DOMAIN nodes'[n].bc.db
             /\ nodes'[n].bc.db[h] = nodes[n].bc.db[h]]_vars

----------------------------------------------------------------------------
(* A listening node that holds the genesis block, and a peer whose chain is *)
(* one block longer: the peer relays the transaction of that block and     *)
(* sends its blocks; bc is the chain of the peer                            *)

InitAdopt ==
    /\ \E a \in Addresses :
       \E s \in {x \in ChainStates(2) : create(a, 1).tip \in DOMAIN x.bc.db} :
          /\ bc = s.bc
          /\ utxo = s.utxo
          /\ indexed = s.bc.tip
          /\ nodes = (CENTERAL_NODE :> ServerBuild(create(a, 1), reindex(create(a, 1)), ""))
    /\ pool = {}
    /\ world = {}
    /\ clock = 2
    /\ result = "ok"
    /\ msgs = EmptyBag
    /\ threads = EmptyBag
    /\ started = {CENTERAL_NODE}

\* the peer writes a Tx message with a transaction the node has not on its chain
PeerSendsTx(n) ==
    /\ \E tx \in Range(ChainTxs(bc)) \ pool :
         /\ ~is_coinbase(tx)
         /\ ~HasTransaction(nodes[n].bc, tx.id)
         /\ pool' = pool \cup {tx}
         /\ msgs' = Put(msgs, TxMsg(n, PeerAddr, tx))
    /\ UNCHANGED <<bc, utxo, indexed, world, clock, result, nodes, threads, started>>

\* the peer writes a Block message with a block of its chain
PeerSendsOwnBlock(n) ==
    /\ \E block \in Range(bc.db) \ world :
         /\ world' = world \cup {block}
         /\ msgs' = Put(msgs, BlockMsg(n, PeerAddr, block))
    /\ UNCHANGED <<bc, utxo, indexed, pool, clock, result, nodes, threads, started>>

NextAdopt ==
    \/ PeerSendsTx(CENTERAL_NODE)
    \/ PeerSendsOwnBlock(CENTERAL_NODE)
    \/ TxReceive(CENTERAL_NODE)
    \/ TxStep(CENTERAL_NODE)
    \/ BlockReceive(CENTERAL_NODE)
    \/ BlockStep(CENTERAL_NODE)

SpecAdopt == InitAdopt /\ [][NextAdopt]_vars

----------------------------------------------------------------------------
(* server.rs: the Version and Addr handlers *)

\* the comparison of the heights the other way round
VersionReply_Swapped(my_best_height, best_height) ==
    IF my_best_height > best_height THEN "GetBlocks"
    ELSE IF my_best_height < best_height THEN "Version"
    ELSE "none"

\* Message::Version: what the node answers to best_height
VersionReply(my_best_height, best_height) ==
    IF my_best_height < best_height THEN "GetBlocks"
    ELSE IF my_best_height > best_height THEN "Version"
    ELSE "none"

\* Message::Version: get_best_height, then the GetBlocks or the Version
VersionReceive(n) ==
    /\ CanSpawn(n)
    /\ \E m \in Inbox(n, "Version") :
         LET e0 == Effect(nodes, Take(msgs, m), TRUE)
             my == get_best_height(nodes[n].bc)
             reply == VersionReply(my, m.items[1][2])
         IN  IF nodes[n].poisoned
             THEN /\ msgs' = e0.msgs
                  /\ UNCHANGED <<nodes, threads>>
             ELSE \E e \in {IF reply = "GetBlocks"
                            THEN send_message(e0, n, m.addr_from, GetBlocksMsg(m.addr_from, n))
                            ELSE IF reply = "Version"
                            THEN send_message(e0, n, m.addr_from, VersionMsg(m.addr_from, n, my))
                            ELSE e0} :
                     /\ nodes' = e.nodes
                     /\ msgs' = e.msgs
                     /\ threads' = IF e.alive
                                   THEN Put(threads, Thread(n, "Version", "addr", m.addr_from,
                                                            <<>>, <<>>, <<>>, <<>>, <<>>, <<>>))
                                   ELSE threads
    /\ UNCHANGED <<bc, utxo, indexed, pool, world, result, clock, started>>

\* Message::Version, the later lock sections: the Addr with get_known_nodes,
\* then add_node unless node_is_known
VersionStep(n) ==
    /\ \E t \in Running(n, "Version") :
         IF nodes[n].poisoned
         THEN /\ threads' = Take(threads, t)
              /\ UNCHANGED <<nodes, msgs>>
         ELSE IF t.pc = "addr"
         THEN \E e \in {send_message(Effect(nodes, msgs, TRUE), n, t.addr_from,
                                     AddrMsg(t.addr_from, nodes[n].known_nodes))} :
                 /\ nodes' = e.nodes
                 /\ msgs' = e.msgs
                 /\ threads' = IF e.alive
                               THEN Put(Take(threads, t), [t EXCEPT !.pc = "known"])
                               ELSE Take(threads, t)
         ELSE /\ nodes' = [nodes EXCEPT ![n].known_nodes = @ \cup {t.addr_from}]
              /\ threads' = Take(threads, t)
              /\ UNCHANGED msgs
    /\ UNCHANGED <<bc, utxo, indexed, pool, world, result, clock, started>>

\* Message::Addr: add_node for every node of the message
HandleAddr(n) ==
    /\ \E m \in Inbox(n, "Addr") :
         Handled(Effect(IF nodes[n].poisoned THEN nodes
                        ELSE [nodes EXCEPT ![n].known_nodes = @ \cup m.items[1][2]],
                        Take(msgs, m), TRUE))
    /\ UNCHANGED <<threads, clock, started>>

\* two nodes that hold chains of their own (the second node one fixed chain of
\* each length) and have not started, and a peer that does not listen; world
\* is the set of Version messages the peer wrote
InitVersion ==
    /\ NoStore
    /\ \E k1 \in 1..(MaxChain - 1), k2 \in 1..(MaxChain - 1) :
       \E s1 \in ChainStates(k1), s2 \in {CHOOSE x \in ChainStates(k2) : TRUE} :
          /\ clock = k1
          /\ nodes = (CENTERAL_NODE :> ServerBuild(s1.bc, s1.utxo, ""))
                     @@ (OtherNode :> ServerBuild(s2.bc, s2.utxo, ""))
    /\ msgs = EmptyBag
    /\ threads = EmptyBag
    /\ started = {}

\* the peer connects and writes a Version message with best_height h
PeerSendsVersion(n, h) ==
    /\ <<n, h>> \notin world
    /\ world' = world \cup {<<n, h>>}
    /\ msgs' = Put(msgs, VersionMsg(n, PeerAddr, h))
    /\ UNCHANGED <<bc, utxo, indexed, pool, clock, result, nodes, threads, started>>

NextVersion ==
    \/ \E n \in NodeAddrs : Start(n)
    \/ \E h \in 0..2 : PeerSendsVersion(CENTERAL_NODE, h)
    \/ \E n \in NodeAddrs : VersionReceive(n)
    \/ \E n \in NodeAddrs : VersionStep(n)
    \/ \E n \in NodeAddrs : HandleAddr(n)
    \/ \E n \in NodeAddrs : HandleGetBlocks(n)

SpecVersion == InitVersion /\ [][NextVersion]_vars

----------------------------------------------------------------------------
(* Signing and verifying: sign_transaction and verify_transaction applied  *)
(* to transactions whose inputs reference outputs of the chain             *)

\* number of inputs of the transaction that is signed and verified
MaxInputs == 2

\* the <<tx_id, out_idx>> of every output of a transaction on the chain
OutRefs(b) ==
    LET txs == ChainTxs(b)
    IN  UNION {{<<txs[k].id, i - 1>> : i \in 1..Len(txs[k].v_out)} : k \in 1..Len(txs)}

\* a transaction as new_utxo builds it before it is signed: the inputs
\* reference `refs` and carry the public key `pub`
RawTx(refs, pub, amount, to) ==
    set_id([id    |-> EmptyBytes,
            v_in  |-> [i \in 1..Len(refs) |->
                         [tx_id |-> refs[i][1], v_out |-> refs[i][2],
                          signature |-> EmptyBytes, pub_key |-> pub]],
            v_out |-> <<TXOutputNew(amount, to)>>])

InitSign ==
    /\ \E s \in ChainStates(2) :
          /\ bc = s.bc
          /\ utxo = s.utxo
          /\ indexed = s.bc.tip
          /\ \E n \in 0..MaxInputs :
             \E refs \in [1..n -> OutRefs(s.bc)] :
             \E a \in Addresses, to \in Addresses, amount \in Amounts :
                pool = {RawTx(refs, WalletPublicKey(a), amount, to)}
    /\ world = {}
    /\ clock = 2
    /\ result = "ok"
    /\ nodes = <<>>
    /\ msgs = EmptyBag
    /\ threads = EmptyBag
    /\ started = {}

\* Blockchain::sign_transaction with the private key of wallet a
SignTransaction(a) ==
    /\ \E t \in pool :
       \E r \in {sign_transaction(bc, t, a)} :
          /\ pool' = {r.tx}
          /\ result' = r.status
    /\ UNCHANGED <<bc, utxo, indexed, world, clock>>
    /\ UNCHANGED netvars

\* Blockchain::verify_transaction
VerifyTransaction ==
    /\ \E t \in pool : result' = verify_transaction(bc, t)
    /\ UNCHANGED <<bc, utxo, indexed, pool, world, clock>>
    /\ UNCHANGED netvars

NextSign ==
    \/ \E a \in Addresses : SignTransaction(a)
    \/ VerifyTransaction

SpecSign == InitSign /\ [][NextSign]_vars

\* every input is signed, and its pub_key is the public key of the signer
KeysMatch(t) ==
    \A i \in 1..Len(t.v_in) :
       /\ t.v_in[i].signature # EmptyBytes
       /\ t.v_in[i].pub_key = WalletPublicKey(t.v_in[i].signature[2])

\* C14: a non-coinbase transaction with any number of inputs that was signed
\* with a private key, every input carrying the matching public key, verifies
\* as true against the same previous transactions
C14_SignThenVerify ==
    [][(VerifyTransaction /\ \A t \in pool : ~is_coinbase(t) /\ KeysMatch(t))
          => result' = "true"]_vars

\* a signed transaction with two inputs that reference different transactions
\* was verified as true
C14_TwoInputsVerified ==
    /\ result = "true"
    /\ \E t \in pool :
          /\ Len(t.v_in) = 2
          /\ t.v_in[1].tx_id # t.v_in[2].tx_id
          /\ KeysMatch(t)

----------------------------------------------------------------------------
(* Properties of the node *)

\* in this step a handler of node n other than thread t reads or writes the
\* shared state: a message for n is taken up, or another thread of n moves
OtherHandlerStep(n, t) ==
    \/ \E m \in BagToSet(msgs) : m.to = n /\ CopiesIn(m, msgs') < CopiesIn(m, msgs)
    \/ \E u \in BagToSet(threads) \ {t} :
          u.node = n /\ CopiesIn(u, threads') < CopiesIn(u, threads)

\* C6: of two messages handled concurrently by one node, the handler of one
\* runs to completion before the other reads or writes the shared state:
\* while a handler is between two of its accesses, no other handler of the
\* node makes an access
C6_HandlersAtomic ==
    [][\A t \in BagToSet(threads) :
          CopiesIn(t, threads') >= CopiesIn(t, threads) => ~OtherHandlerStep(t.node, t)]_vars

\* the tip and the UTXO index of node n are those of the central node
SyncedWithCentral(n) ==
    /\ nodes[n].bc.tip = nodes[CENTERAL_NODE].bc.tip
    /\ nodes[n].utxo = nodes[CENTERAL_NODE].utxo

\* C8: a node that starts without a chain next to a central node with a chain
\* of k blocks, no message being lost, eventually has the tip of the central
\* node and, after its reindex, the UTXO index of the central node
C8_SyncReachesCentralTip == <>SyncedWithCentral(OtherNode)

\* a transaction the command line sent is in a block of the chain of node n
SentTxOnChain(n) == \E tx \in pool : HasTransaction(nodes[n].bc, tx.id)

\* no message is in flight and no handler is running
Quiet == msgs = EmptyBag /\ threads = EmptyBag

\* the two nodes have the same tip and report the same balance for every address
NodesAgree ==
    /\ nodes[CENTERAL_NODE].bc.tip = nodes[OtherNode].bc.tip
    /\ \A a \in Addresses :
          Balance(nodes[CENTERAL_NODE].utxo, a) = Balance(nodes[OtherNode].utxo, a)

\* C9: a valid transaction sent to the central node by send_transaction is
\* relayed to the miner, the miner mines a block that contains it, the central
\* node adopts that block, and once no message is in flight both nodes have
\* the same tip and the same balances
C9_RelayedMinedAdopted ==
    /\ (pool # {}) ~> (SentTxOnChain(OtherNode) /\ SentTxOnChain(CENTERAL_NODE))
    /\ [](Quiet => NodesAgree)

\* no message is in flight and no handler is running, and no transaction of
\* the mempool of n is in a block of the chain of n
MempoolOffChain(n) ==
    \A h \in DOMAIN nodes[n].mempool :
       ~HasTransaction(nodes[n].bc, nodes[n].mempool[h].id)

\* C21: a transaction enters the mempool of a node when its Tx message is
\* handled, and once the node has mined or adopted a block that holds it and
\* its handlers have finished, the transaction is not in the mempool
C21_MempoolFollowsChain ==
    /\ [][\A n \in DOMAIN nodes :
             (TxReceive(n) /\ ~nodes[n].poisoned)
             => \E m \in Inbox(n, "Tx") :
                   /\ msgs' = Take(msgs, m)
                   /\ hash_val(m.tx[1]) \in DOMAIN nodes'[n].mempool
                   /\ nodes'[n].mempool[hash_val(m.tx[1])] = m.tx[1]]_vars
    /\ [](Quiet => \A n \in DOMAIN nodes : MempoolOffChain(n))

\* C22: after a handler thread of a node has failed, the node still handles
\* every later message as before: an Inv of a transaction that its mempool
\* lacks is answered with the GetData for it
C22_LaterMessagesHandled ==
    [][\A n \in DOMAIN nodes :
         HandleInv(n)
         => \E m \in Inbox(n, "Inv") :
               (m.kind = "tx" /\ m.items # <<>> /\ m.addr_from \in DOMAIN nodes \ {n}
                /\ m.items[1] \notin DOMAIN nodes[n].mempool)
               => msgs' = Put(Take(msgs, m),
                              GetDataMsg(m.addr_from, n, "tx", m.items[1]))]_vars

\* the thread t of node n takes a step
Steps(t) == CopiesIn(t, threads') < CopiesIn(t, threads)

\* C23: a send to a peer whose connection cannot be opened removes that peer
\* from known_nodes and changes nothing else, and the handler goes on; a send
\* to the own address changes nothing
C23_FailedSendRemovesPeer ==
    [][/\ \A n \in DOMAIN nodes : \A t \in Running(n, "Version") :
            (VersionStep(n) /\ Steps(t) /\ t.pc = "addr" /\ t.addr_from \notin DOMAIN nodes)
            => /\ nodes' = [nodes EXCEPT ![n].known_nodes = @ \ {t.addr_from}]
               /\ msgs' = msgs
               /\ threads' = Put(Take(threads, t), [t EXCEPT !.pc = "known"])
       /\ \A n \in DOMAIN nodes :
            (Start(n) /\ n = CENTERAL_NODE /\ get_best_height(nodes[n].bc) # -1)
            => (nodes' = nodes /\ msgs' = msgs)]_vars

\* C23 witness: the peer has written two Version messages to the central node,
\* the handler of the first has added the peer, and the failed send of the
\* second has removed it
C23_PeerRemoved ==
    /\ Cardinality({w \in world : w[1] = CENTERAL_NODE}) = 2
    /\ Inbox(CENTERAL_NODE, "Version") = {}
    /\ CENTERAL_NODE \in started
    /\ BagCardinality(threads) = 1
    /\ \E t \in Running(CENTERAL_NODE, "Version") :
          t.pc = "known" /\ t.addr_from = PeerAddr
    /\ PeerAddr \notin nodes[CENTERAL_NODE].known_nodes

\* what a node of height my answers to Version(addr_from, h) when addr_from
\* listens: GetBlocks to a higher peer, its own Version to a lower one
Answer(n, m, my) ==
    LET h == m.items[1][2]
    IN  IF h > my THEN Put(Take(msgs, m), GetBlocksMsg(m.addr_from, n))
        ELSE IF h < my THEN Put(Take(msgs, m), VersionMsg(m.addr_from, n, my))
        ELSE Take(msgs, m)

Requested(n, h) ==
    \/ \E m \in BagToSet(msgs) :
          \/ m.type = "GetData" /\ m.kind = "block" /\ m.addr_from = n /\ m.items = <<h>>
          \/ m.type = "Block" /\ m.to = n /\ m.block[1].hash = h
    \/ \E t \in Running(n, "Block") : t.block[1].hash = h
    \/ has_block(nodes[n].bc, h)

\* C26: every block hash announced with Inv is requested with GetData once:
\* no step of a node sends a GetData for a block it has asked for before,
\* also when Block and Inv handlers of the node run concurrently
C26_RequestedOnce ==
    [][\A m \in BagToSet(msgs') :
         (m.type = "GetData" /\ m.kind = "block" /\ CopiesIn(m, msgs') > CopiesIn(m, msgs))
         => ~Requested(m.addr_from, m.items[1])]_vars

\* C27: on a node with a mining address that is not the central node, when
\* the handler of a Tx message ends, every transaction of the mempool that it
\* found to verify is in a block of the chain of the node
C27_VerifiedAreMined ==
    [][\A n \in DOMAIN nodes : \A t \in Running(n, "Tx") :
         (/\ n # CENTERAL_NODE /\ nodes[n].mining_address # ""
          /\ TxStep(n) /\ Steps(t)
          /\ BagCardinality(threads') < BagCardinality(threads))
         => \A i \in DOMAIN t.txs :
               ~is_coinbase(t.txs[i]) => HasTransaction(nodes'[n].bc, t.txs[i].id)]_vars

\* the elements of a sequence with the number of times each occurs
BagOf(seq) == [x \in Range(seq) |-> Cardinality({i \in DOMAIN seq : seq[i] = x})]

\* the outputs of tx locked with pkh that no input on the chain references
FreeOutputs(b, tx, pkh) ==
    SelectSeq([i \in 1..Len(tx.v_out) |-> <<i - 1, tx.v_out[i]>>],
              LAMBDA e : /\ <<tx.id, e[1]>> \notin SpentOnChain(b)
                         /\ is_locked_with_key(e[2], pkh))

\* the outputs locked with pkh that no input on the chain references, one for
\* every such output of every transaction of the chain
UnreferencedOutputs(b, pkh) ==
    LET txs == ChainTxs(b)
    IN  ConcatTxs([k \in 1..Len(txs) |->
                     [transactions |->
                        [j \in 1..Len(FreeOutputs(b, txs[k], pkh)) |->
                           FreeOutputs(b, txs[k], pkh)[j][2]]]],
                  1)

\* C28: the scan of the whole chain reports, for a key, exactly the outputs
\* locked with it that no input on the chain references, each of them once
C28_ScanReportsUnspent ==
    bc.l # NoTip
    => \A a \in Addresses :
          BagOf(find_utxo(bc, get_pub_key_hash(a)))
             = BagOf(UnreferencedOutputs(bc, get_pub_key_hash(a)))

\* the hashes of the blocks reachable from "l"
Reachable(b) ==
    {blk.hash : blk \in Range(IterFrom(b.db, b.l, Cardinality(DOMAIN b.db)))}

\* C29: at every point of create, mine_block and add_block, between their
\* writes too, "l" is absent or names a stored block; the block written
\* before "l" is stored and not reachable from "l", which create has removed
\* and add_block has left as it was
C29_TipNamesStoredBlock ==
    /\ bc.l = NoTip \/ bc.l \in DOMAIN bc.db
    /\ result \in {"create:block", "add:block"}
       => \A block \in world :
             block.hash \in DOMAIN bc.db /\ block.hash \notin Reachable(bc)
    /\ result = "create:block" => bc.l = NoTip
    /\ result = "add:block" => bc.l = bc.tip /\ bc.l # NoTip

\* C29 witness: after a crash between the two writes of add_block the store
\* holds a block that is not reachable from "l"
C29_CrashLeftOrphan ==
    /\ ~Writing
    /\ bc.l \in DOMAIN bc.db
    /\ DOMAIN bc.db \ Reachable(bc) # {}

\* the inputs of the non-coinbase transactions of the chain: <<k, i>> is
\* input i of the k-th transaction
ChainInputs(b) ==
    LET txs == ChainTxs(b)
    IN  UNION {{<<k, i>> : i \in 1..Len(txs[k].v_in)} :
                  k \in {j \in 1..Len(txs) : ~is_coinbase(txs[j])}}

\* C30: on the chain no output (tx_id, v_out) is referenced by two inputs,
\* be they of one transaction, of two transactions of one block or of
\* transactions of different blocks
C30_NoDoubleSpend ==
    LET txs == ChainTxs(bc)
    IN  \A p \in ChainInputs(bc), q \in ChainInputs(bc) :
           p # q => <<txs[p[1]].v_in[p[2]].tx_id, txs[p[1]].v_in[p[2]].v_out>>
                    # <<txs[q[1]].v_in[q[2]].tx_id, txs[q[1]].v_in[q[2]].v_out>>

\* every input of t carries a public key whose hash is the pub_key_hash of
\* the chain output it references
OwnsInputs(b, t) ==
    \A i \in 1..Len(t.v_in) :
       uses_key(t.v_in[i],
                find_transaction(b, t.v_in[i].tx_id).v_out[t.v_in[i].v_out + 1].pub_key_hash)

\* C31: verify returns true only when, for every input, the hash of the
\* input's pub_key is the pub_key_hash of the output the input references
C31_VerifyChecksOwner ==
    [][(VerifyTransaction /\ result' = "true")
          => \A t \in pool : OwnsInputs(bc, t)]_vars

\* C32: for every amount, zero and negative ones too, a transaction that
\* new_utxo returns has at least one input and only outputs of a value above 0
C32_SpendsSomethingPositive ==
    \A t \in pool :
       /\ Len(t.v_in) >= 1
       /\ \A i \in 1..Len(t.v_out) : t.v_out[i].value > 0

\* input `in` names, by its position in the output list of the chain
\* transaction, an output that is locked with the key of the input and that
\* no input on the chain references
NamesUnspentOwn(b, in) ==
    /\ HasTransaction(b, in.tx_id)
    /\ in.v_out >= 0
    /\ in.v_out + 1 <= Len(find_transaction(b, in.tx_id).v_out)
    /\ uses_key(in, find_transaction(b, in.tx_id).v_out[in.v_out + 1].pub_key_hash)
    /\ <<in.tx_id, in.v_out>> \notin SpentOnChain(b)

\* C33: with an index that reindex or update has brought up to the tip, every
\* input of a transaction that new_utxo builds from find_spendable_outputs
\* references an unspent chain output locked with the sender's key, also
\* after update has removed earlier outputs of the same record
C33_InputsNameUnspent ==
    [][UpToDate
          => \A t \in pool' \ pool :
                \A i \in 1..Len(t.v_in) : NamesUnspentOwn(bc, t.v_in[i])]_vars

====
